---- MODULE Spec2Model ----
(***************************************************************************)
(* A model of the YouTube MCP server of src/src/index.ts: the identifier   *)
(* resolver extractVideoId, the search projection loop of                  *)
(* performYouTubeSearch, the transcript extraction of extractTranscript    *)
(* and the three tool handlers (search, get-video-info, get-transcript).   *)
(*                                                                         *)
(* Strings the code inspects character by character (the handler input,    *)
(* caption segment texts) are sequences of one-character strings.  Strings *)
(* the code only concatenates (messages, URLs) are sequences of parts, so  *)
(* that `a ${b}` is <<"a ", b>>.                                           *)
(***************************************************************************)
EXTENDS Integers, Sequences, FiniteSets, TLC

VARIABLES
    idInput,        \* extractVideoId: the argument `input`
    idResult,       \* extractVideoId: the returned value
    idPc,           \* extractVideoId: "call" before the call, "returned" after
    items,          \* search loop: the item list read from initialData
    limit,          \* search loop: the limit parameter
    loop,           \* search loop: [next, results, examined, done]
    commonHeaders,  \* the module-level header object
    inv             \* tool invocations: id -> the invocation's locals

vars == <<idInput, idResult, idPc, items, limit, loop, commonHeaders, inv>>

Min(S) == CHOOSE x \in S : \A y \in S : x <= y

RECURSIVE Concat(_)
\* The concatenation of a sequence of sequences.
Concat(ss) == IF ss = <<>> THEN <<>> ELSE Head(ss) \o Concat(Tail(ss))

(***************************************************************************)
(* extractVideoId                                                          *)
(***************************************************************************)

\* The length both regular-expression quantifiers {11} ask for.
IdLen == 11

\* The character class [a-zA-Z0-9_-].
IdCharset ==
    {"a", "b", "c", "d", "e", "f", "g", "h", "i", "j", "k", "l", "m", "n", "o",
     "p", "q", "r", "s", "t", "u", "v", "w", "x", "y", "z", "A", "B", "C", "D",
     "E", "F", "G", "H", "I", "J", "K", "L", "M", "N", "O", "P", "Q", "R", "S",
     "T", "U", "V", "W", "X", "Y", "Z", "0", "1", "2", "3", "4", "5", "6", "7",
     "8", "9", "_", "-"}

\* \s of a JavaScript regular expression (the ASCII part of it).
WhiteSpace == {" ", "\t", "\n", "\r", "\f"}

\* The characters the negated class [^"&?\/\s] refuses.
ExcludedChars == {"\"", "&", "?", "/"} \cup WhiteSpace

\* /^[a-zA-Z0-9_-]{11}$/.test(s)
IsVideoId(s) == Len(s) = IdLen /\ \A k \in 1..Len(s) : s[k] \in IdCharset

\* The literal part (the non-capturing group) of each URL pattern.
WatchMarker ==
    <<"y", "o", "u", "t", "u", "b", "e", ".", "c", "o", "m", "/", "w", "a",
      "t", "c", "h", "?", "v", "=">>
ShortMarker == <<"y", "o", "u", "t", "u", ".", "b", "e", "/">>
EmbedMarker ==
    <<"y", "o", "u", "t", "u", "b", "e", ".", "c", "o", "m", "/", "e", "m",
      "b", "e", "d", "/">>
MobileMarker == <<"m", ".">> \o WatchMarker
MusicMarker == <<"m", "u", "s", "i", "c", ".">> \o WatchMarker

\* A faulty variant of the list: the embed pattern is missing.
PatternsWithoutEmbed ==
    << <<WatchMarker>>, <<ShortMarker>>, <<ShortMarker, WatchMarker>>,
       <<MobileMarker>>, <<MusicMarker>> >>

\* The list `patterns`: each pattern is the sequence of the alternatives of
\* its group, every one followed by the capture ([^"&?\/\s]{11}).
Patterns ==
    << <<WatchMarker>>, <<ShortMarker>>, <<EmbedMarker>>,
       <<ShortMarker, WatchMarker>>, <<MobileMarker>>, <<MusicMarker>> >>

\* The value null, and a string result.
Null == [null |-> TRUE, id |-> <<>>]
Str(s) == [null |-> FALSE, id |-> s]

\* The literal lit stands in s at position p.
LitAt(s, p, lit) ==
    /\ p + Len(lit) - 1 <= Len(s)
    /\ \A k \in 1..Len(lit) : s[p + k - 1] = lit[k]

\* [^"&?\/\s]{11} matches in s at position q.
CaptureAt(s, q) ==
    /\ q + IdLen - 1 <= Len(s)
    /\ \A k \in 0..(IdLen - 1) : s[q + k] \notin ExcludedChars

\* One alternative followed by the capture matches in s at position p.
AltMatchAt(s, p, alt) == LitAt(s, p, alt) /\ CaptureAt(s, p + Len(alt))

\* input.match(pattern): the leftmost position where an alternative matches,
\* the first such alternative there; match[1] is the captured text.
RegexMatch(s, pat) ==
    LET at == {p \in 1..Len(s) : \E a \in 1..Len(pat) : AltMatchAt(s, p, pat[a])}
    IN  IF at = {} THEN Null
        ELSE LET p == Min(at)
                 a == Min({b \in 1..Len(pat) : AltMatchAt(s, p, pat[b])})
                 q == p + Len(pat[a])
             IN  Str(SubSeq(s, q, q + IdLen - 1))

\* The loop over `patterns`: the first pattern that matches decides.
FirstPatternMatch(s, pats) ==
    LET hits == {k \in 1..Len(pats) : ~RegexMatch(s, pats[k]).null}
    IN  IF hits = {} THEN Null ELSE RegexMatch(s, pats[Min(hits)])

extractVideoId(s) ==
    IF IsVideoId(s) THEN Str(s) ELSE FirstPatternMatch(s, Patterns)

(***************************************************************************)
(* The inputs of extractVideoId that are explored: a prefix, a URL marker  *)
(* (or none, or one the code does not know), a candidate identifier and a  *)
(* tail.  z.string().min(1) refuses the empty input.                       *)
(***************************************************************************)
Prefixes ==
    {<<>>,
     <<"h", "t", "t", "p", "s", ":", "/", "/">>,
     <<"h", "t", "t", "p", "s", ":", "/", "/", "w", "w", "w", ".">>}

InputMarkers ==
    {<<>>, WatchMarker, ShortMarker, EmbedMarker, MobileMarker, MusicMarker,
     <<"y", "o", "u", "t", "u", "b", "e", ".", "c", "o", "m", "/", "v", "/">>,
     <<"Y", "o", "u", "T", "u", "b", "e", ".", "c", "o", "m", "/", "w", "a",
       "t", "c", "h", "?", "v", "=">>}

Bodies ==
    {<<"d", "Q", "w", "4", "w", "9", "W", "g", "X", "c", "Q">>,
     <<"a", "_", "B", "-", "c", "0", "d", "1", "E", "2", "f">>,
     <<"v", "i", "d", ".", "e", "o", "!", "=", "%", "2", "0">>,
     <<"d", "Q", "w", "4", "w", "9", "W", "g", "X", "c">>,
     <<"d", "Q", "w", "4", "w", "9", "W", "g", "X", "c", "Q", "Z">>,
     <<"n", "o", "t", " ", "a", " ", "v", "a", "l", "i", "d", " ", "u", "r",
       "l", " ", "o", "r", " ", "i", "d">>}

Suffixes ==
    {<<>>,
     <<"&", "t", "=", "4", "2">>,
     <<"?", "t", "=", "1", "2", "3">>,
     <<"/">>,
     <<" ", "n", "o", "w">>,
     <<"\"">>}

\* A tail that carries a second short URL in a query parameter.
SecondUrl ==
    <<"?", "f", "e", "a", "t", "u", "r", "e", "=">> \o ShortMarker
        \o <<"a", "_", "B", "-", "c", "0", "d", "1", "E", "2", "f">>

Inputs ==
    {pre \o mk \o body \o suf :
        pre \in Prefixes, mk \in InputMarkers, body \in Bodies, suf \in Suffixes}
    \cup
    {pre \o mk \o body \o SecondUrl :
        pre \in Prefixes, mk \in InputMarkers, body \in {x \in Bodies : IsVideoId(x)}}

\* The values of the variables of a part of the model that is not running.
IdleLoop == [next |-> 1, results |-> <<>>, examined |-> <<>>, done |-> TRUE]
IdleHeaders == <<>>
IdleInv == <<>>

InitId ==
    /\ idInput \in Inputs
    /\ idResult = Null
    /\ idPc = "call"
    /\ items = <<>> /\ limit = 1 /\ loop = IdleLoop
    /\ commonHeaders = IdleHeaders /\ inv = IdleInv

\* A call of extractVideoId(input) returns.
ExtractVideoIdCall ==
    /\ idPc = "call"
    /\ idResult' = extractVideoId(idInput)
    /\ idPc' = "returned"
    /\ UNCHANGED <<idInput, items, limit, loop, commonHeaders, inv>>

\* The next call, with another input.
ExtractVideoIdNext ==
    /\ idPc = "returned"
    /\ idInput' \in Inputs
    /\ idResult' = Null
    /\ idPc' = "call"
    /\ UNCHANGED <<items, limit, loop, commonHeaders, inv>>

NextId == ExtractVideoIdCall \/ ExtractVideoIdNext

SpecId == InitId /\ [][NextId]_vars

\* The five URL markers the documentation lists.
Markers == {WatchMarker, ShortMarker, EmbedMarker, MobileMarker, MusicMarker}

\* What may follow an identifier in a URL: &, ?, / or whitespace.
Terminators == {"&", "?", "/"} \cup WhiteSpace

\* id stands in s right after marker m at position p, and ends there.
IdAfterMarkerAt(s, id, m, p) ==
    LET q == p + Len(m)
    IN  /\ LitAt(s, p, m)
        /\ q + IdLen - 1 <= Len(s)
        /\ SubSeq(s, q, q + IdLen - 1) = id
        /\ (q + IdLen > Len(s) \/ s[q + IdLen] \in Terminators)

ContainsIdAfterMarker(s, id) ==
    \E m \in Markers : \E p \in 1..Len(s) : IdAfterMarkerAt(s, id, m, p)

ContainsMarker(s) == \E m \in Markers : \E p \in 1..Len(s) : LitAt(s, p, m)

\* Some marker of s is followed by 11 capturable characters that are not id.
OtherCapture(s, id) ==
    \E m \in Markers : \E p \in 1..Len(s) :
        /\ AltMatchAt(s, p, m)
        /\ SubSeq(s, p + Len(m), p + Len(m) + IdLen - 1) # id

\* The identifiers that occur anywhere in s.
IdsIn(s) ==
    {id \in {SubSeq(s, q, q + IdLen - 1) : q \in 1..(Len(s) - IdLen + 1)} :
        IsVideoId(id)}

\* C1: every value extractVideoId returns other than null is exactly 11
\* characters of [A-Za-z0-9_-].
C1_ResultIsVideoId ==
    (idPc = "returned" /\ ~idResult.null) => IsVideoId(idResult.id)

\* C2, as claimed: a bare identifier is returned as it is, an identifier that
\* follows one of the five markers (and ends there) is returned, and an input
\* with no marker that is no bare identifier gives null.
C2_AnyUrlWithIdAfterMarker ==
    idPc = "returned" =>
        /\ IsVideoId(idInput) => idResult = Str(idInput)
        /\ \A id \in IdsIn(idInput) :
               ContainsIdAfterMarker(idInput, id) => idResult = Str(id)
        /\ (~ContainsMarker(idInput) /\ ~IsVideoId(idInput)) => idResult = Null

\* C2, amended: the same, for the inputs in which no marker is followed by 11
\* capturable characters other than id.
C2_SoleCaptureIsReturned ==
    idPc = "returned" =>
        /\ IsVideoId(idInput) => idResult = Str(idInput)
        /\ \A id \in IdsIn(idInput) :
               (ContainsIdAfterMarker(idInput, id) /\ ~OtherCapture(idInput, id))
                   => idResult = Str(id)
        /\ (~ContainsMarker(idInput) /\ ~IsVideoId(idInput)) => idResult = Null

\* C2's case: an embed URL with a tail, resolved to the identifier in it.
C2_Witness ==
    /\ idPc = "returned"
    /\ \E id \in IdsIn(idInput) : \E p \in 1..Len(idInput) :
           /\ IdAfterMarkerAt(idInput, id, EmbedMarker, p)
           /\ p + Len(EmbedMarker) + IdLen <= Len(idInput)
           /\ ~OtherCapture(idInput, id)
           /\ idResult = Str(id)

(***************************************************************************)
(* performYouTubeSearch: the projection loop                               *)
(*                                                                         *)
(* An item of the list is [videoRenderer, videoId, title]: whether it has  *)
(* a videoRenderer, and that renderer's videoId and first title run text,  *)
(* "" standing for a field that is absent or empty (both are falsy).  The  *)
(* other fields of a result are copied with '' as default and decide       *)
(* nothing; they are left out.                                             *)
(***************************************************************************)

\* The bounds z.number().min(1).max(10) puts on limit.
MinLimit == 1
MaxLimit == 10

\* The longest item list explored.
MaxItems == 4

ItemKinds ==
    {[videoRenderer |-> FALSE, videoId |-> "", title |-> ""],
     [videoRenderer |-> TRUE, videoId |-> "", title |-> "T0"],
     [videoRenderer |-> TRUE, videoId |-> "v0", title |-> ""],
     [videoRenderer |-> TRUE, videoId |-> "v1", title |-> "T1"],
     [videoRenderer |-> TRUE, videoId |-> "v2", title |-> "T2"]}

ItemLists == UNION {[1..n -> ItemKinds] : n \in 0..MaxItems}

\* `const result: VideoResult = {...}` built from item.videoRenderer.
VideoResult(item) ==
    [videoId |-> item.videoId,
     title |-> item.title,
     url |-> <<"https://youtube.com/watch?v=", item.videoId>>]

\* The state of the loop as `for (const item of items)` starts: the index of
\* the next item, `results`, and the indices of the items whose fields were read.
LoopStart == [next |-> 1, results |-> <<>>, examined |-> <<>>, done |-> FALSE]

\* A faulty variant of the loop body: `>` for `>=` in the break test.
LoopStepLateBreak(its, lim, st) ==
    IF st.next > Len(its) \/ Len(st.results) > lim
    THEN [st EXCEPT !.done = TRUE]
    ELSE LET item == its[st.next]
             seen == [st EXCEPT !.next = @ + 1, !.examined = Append(@, st.next)]
         IN  IF ~item.videoRenderer THEN seen
             ELSE IF VideoResult(item).videoId # "" /\ VideoResult(item).title # ""
                  THEN [seen EXCEPT !.results = Append(@, VideoResult(item))]
                  ELSE seen

\* One turn of the loop: the end of the list or `break` ends it, an item
\* without a videoRenderer is skipped (`continue`), and a result is pushed
\* only when its videoId and title are both truthy.
LoopStep(its, lim, st) ==
    IF st.next > Len(its) \/ Len(st.results) >= lim
    THEN [st EXCEPT !.done = TRUE]
    ELSE LET item == its[st.next]
             seen == [st EXCEPT !.next = @ + 1, !.examined = Append(@, st.next)]
         IN  IF ~item.videoRenderer THEN seen
             ELSE IF VideoResult(item).videoId # "" /\ VideoResult(item).title # ""
                  THEN [seen EXCEPT !.results = Append(@, VideoResult(item))]
                  ELSE seen

RECURSIVE RunLoop(_, _, _)
\* The loop run to its end.
RunLoop(its, lim, st) ==
    IF st.done THEN st ELSE RunLoop(its, lim, LoopStep(its, lim, st))

InitSearch ==
    /\ items \in ItemLists
    /\ limit \in MinLimit..MaxLimit
    /\ loop = LoopStart
    /\ idInput = <<>> /\ idResult = Null /\ idPc = "idle"
    /\ commonHeaders = IdleHeaders /\ inv = IdleInv

\* One turn of the loop of performYouTubeSearch.
SearchLoopTurn ==
    /\ ~loop.done
    /\ loop' = LoopStep(items, limit, loop)
    /\ UNCHANGED <<idInput, idResult, idPc, items, limit, commonHeaders, inv>>

NextSearch == SearchLoopTurn

SpecSearch == InitSearch /\ [][NextSearch]_vars

\* An item qualifies: a videoRenderer with non-empty videoId and title.
Qualifies(item) == item.videoRenderer /\ item.videoId # "" /\ item.title # ""

\* The indices of the qualifying items of a list, in order.
QualifyingIndices(its) ==
    LET RECURSIVE From(_)
        From(k) == IF k > Len(its) THEN <<>>
                   ELSE IF Qualifies(its[k]) THEN <<k>> \o From(k + 1)
                   ELSE From(k + 1)
    IN  From(1)

\* C3: the loop returns exactly the first min(limit, q) qualifying items in
\* their order, every one with non-empty videoId and title, never more than
\* limit, and reads no item after the one that was emitted as the limit-th.
C3_FirstLimitQualifying ==
    loop.done =>
        LET qi == QualifyingIndices(items)
            n == IF limit < Len(qi) THEN limit ELSE Len(qi)
        IN  /\ Len(loop.results) = n
            /\ Len(loop.results) <= limit
            /\ \A k \in 1..n :
                   /\ loop.results[k].videoId = items[qi[k]].videoId
                   /\ loop.results[k].title = items[qi[k]].title
                   /\ loop.results[k].videoId # ""
                   /\ loop.results[k].title # ""
            /\ Len(qi) >= limit =>
                   \A k \in 1..Len(loop.examined) : loop.examined[k] <= qi[limit]

\* C3's case: the limit is reached with qualifying and other items left.
C3_Witness ==
    /\ loop.done
    /\ Len(loop.results) = limit
    /\ limit >= 2
    /\ Len(QualifyingIndices(items)) > limit
    /\ \E k \in 1..Len(items) : ~Qualifies(items[k])

(***************************************************************************)
(* Values shared by the three handlers                                     *)
(***************************************************************************)

\* A thrown value: an Error with its message, or something that is no Error.
Err(msg) == [isError |-> TRUE, message |-> msg]
NonError == [isError |-> FALSE, message |-> <<>>]

\* `error instanceof Error ? error.message : fallback`
MessageOf(e, fallback) == IF e.isError THEN e.message ELSE <<fallback>>

\* What an awaited promise settles with.
Rejected(e) == [rejected |-> TRUE, reason |-> e, value |-> <<>>]
Fulfilled(v) == [rejected |-> FALSE, reason |-> NonError, value |-> v]

\* response.ok of the fetch API: the status is in the range 200-299.
Ok(status) == status \in 200..299

\* An embedded JSON variable of a page: not there, there but not JSON, or
\* there with the tree it parses to.
Absent == [tag |-> "absent", tree |-> <<>>]
Unparseable == [tag |-> "unparseable", tree |-> <<>>]
Parsed(t) == [tag |-> "json", tree |-> t]

\* The object literal commonHeaders.
InitialHeaders ==
    [name \in {"User-Agent", "Accept-Language", "Accept", "Sec-Fetch-Site",
               "Sec-Fetch-Mode", "Sec-Fetch-User", "Sec-Fetch-Dest", "Sec-Ch-Ua",
               "Sec-Ch-Ua-Mobile", "Sec-Ch-Ua-Platform",
               "Upgrade-Insecure-Requests", "Cache-Control"} |->
        CASE name = "User-Agent" -> "Mozilla/5.0 (Windows NT 10.0; Win64; x64) AppleWebKit/537.36 (KHTML, like Gecko) Chrome/121.0.0.0 Safari/537.36"
          [] name = "Accept-Language" -> "en-US,en;q=0.9"
          [] name = "Accept" -> "text/html,application/xhtml+xml,application/xml;q=0.9,image/webp,image/apng,*/*;q=0.8"
          [] name = "Sec-Fetch-Site" -> "same-origin"
          [] name = "Sec-Fetch-Mode" -> "navigate"
          [] name = "Sec-Fetch-User" -> "?1"
          [] name = "Sec-Fetch-Dest" -> "document"
          [] name = "Sec-Ch-Ua" -> "\"Not A(Brand\";v=\"99\", \"Google Chrome\";v=\"121\", \"Chromium\";v=\"121\""
          [] name = "Sec-Ch-Ua-Mobile" -> "?0"
          [] name = "Sec-Ch-Ua-Platform" -> "\"Windows\""
          [] name = "Upgrade-Insecure-Requests" -> "1"
          [] name = "Cache-Control" -> "max-age=0"]

\* The headers of a request: { ...commonHeaders, 'Referer': referer }.
Spread(h, referer) ==
    [name \in DOMAIN h \cup {"Referer"} |->
        IF name = "Referer" THEN referer ELSE h[name]]

\* A faulty variant: Object.assign(commonHeaders, {Referer}) changes the
\* module's object.
HeadersAfterAssign(h, referer) == Spread(h, referer)

\* commonHeaders after a request was built from it: the spread copies it
\* into a new object, and the module's object is as before.
HeadersAfterSpread(h, referer) == h

\* The locals of an invocation add to its log: the fetches it issued, what
\* its awaits settled with, what was thrown and what the handler returned.
LogEvent(st, e) == [st EXCEPT !.log = Append(@, e)]
Fetch(st, url, headers) ==
    LogEvent(st, [ev |-> "fetch", url |-> url, headers |-> headers])
Settled(st, r) == LogEvent(st, [ev |-> "settle", settled |-> r])
Thrown(st, e) == LogEvent(st, [ev |-> "throw", error |-> e])
Return(st, payload) ==
    [LogEvent(st, [ev |-> "return", payload |-> payload]) EXCEPT !.pc = "done"]
Escape(st, e) ==
    [LogEvent(st, [ev |-> "escape", error |-> e]) EXCEPT !.pc = "done"]

\* The two payload shapes: { content: [{type: "text", text}] } with or
\* without isError: true.  A success payload of a result carries
\* JSON.stringify(result, null, 2), kept as the result itself in `json`.
ErrorPayload(text) == [isError |-> TRUE, text |-> text, json |-> <<>>]
TextPayload(text) == [isError |-> FALSE, text |-> text, json |-> <<>>]
JsonPayload(result) == [isError |-> FALSE, text |-> <<"json">>, json |-> <<result>>]

\* extractInitialData(html): the parsed ytInitialData, or null when the
\* variable is not matched or JSON.parse throws (caught, null returned).
extractInitialData(html) ==
    IF html.ytInitialData.tag = "json"
    THEN [null |-> FALSE, tree |-> html.ytInitialData.tree]
    ELSE [null |-> TRUE, tree |-> <<>>]

WatchUrl(id) == <<"https://www.youtube.com/watch?v=">> \o id

NewInvocation(op, input, lim) ==
    [op |-> op, input |-> input, limit |-> lim, pc |-> "start",
     videoId |-> Null, playerResponse |-> <<>>, captionTrack |-> <<>>,
     log |-> <<>>]

(***************************************************************************)
(* search: the handler and performYouTubeSearch                            *)
(***************************************************************************)

\* The catch of performYouTubeSearch: a new Error wrapping the message.
SearchRethrow(e) ==
    Err(<<"Failed to perform YouTube search: ">> \o MessageOf(e, "Unknown error"))

\* The catch of the search handler.
SearchHandlerCatch(st, e) ==
    Return(st, ErrorPayload(<<"Error performing search: ">>
                            \o MessageOf(e, "An unknown error occurred")))

\* A throw inside the try of performYouTubeSearch.
SearchThrow(st, e) == SearchHandlerCatch(Thrown(st, e), SearchRethrow(e))

\* The handler up to `await fetch(searchUrl, ...)`.
SearchInvoke(st, h) ==
    [Fetch(st, <<"https://www.youtube.com/results?search_query=">> \o st.input
                   \o <<"&sp=CAISAhAB">>,
           Spread(h, "https://www.youtube.com/"))
        EXCEPT !.pc = "awaitPage"]

\* From the fetch settling up to `await response.text()`.
SearchFetchSettled(st, r) ==
    LET s == Settled(st, r)
    IN  IF r.rejected THEN SearchThrow(s, r.reason)
        ELSE IF ~Ok(r.value.status)
             THEN SearchThrow(s, Err(<<"HTTP error! status: ", ToString(r.value.status)>>))
             ELSE [s EXCEPT !.pc = "awaitText"]

\* From the body text settling to the handler's return.
SearchTextSettled(st, r) ==
    LET s == Settled(st, r)
        initialData == extractInitialData(r.value)
    IN  IF r.rejected THEN SearchThrow(s, r.reason)
        ELSE IF initialData.null
             THEN SearchThrow(s, Err(<<"Could not extract video data from page">>))
             ELSE LET results == RunLoop(initialData.tree.items, st.limit, LoopStart).results
                  IN  IF Len(results) = 0
                      THEN Return(s, TextPayload(<<"No results found for the given query.">>))
                      ELSE Return(s, JsonPayload(results))

(***************************************************************************)
(* get-video-info: the handler                                             *)
(***************************************************************************)

\* The early return of both identifier handlers when extractVideoId gives null.
InvalidInput(st) ==
    Return(st, ErrorPayload(<<"Error: Invalid YouTube video ID or URL: ">> \o st.input))

\* The catch of the get-video-info handler.
InfoHandlerCatch(st, e) ==
    Return(st, ErrorPayload(<<"Error fetching video info: ">>
                            \o MessageOf(e, "An unknown error occurred")))

InfoThrow(st, e) == InfoHandlerCatch(Thrown(st, e), e)

\* The handler up to `await fetch(...)`, or its early return.
InfoInvoke(st, h) ==
    LET videoId == extractVideoId(st.input)
        s == [st EXCEPT !.videoId = videoId]
    IN  IF videoId.null THEN InvalidInput(s)
        ELSE [Fetch(s, WatchUrl(videoId.id), Spread(h, "https://www.youtube.com/results"))
                 EXCEPT !.pc = "awaitPage"]

InfoFetchSettled(st, r) ==
    LET s == Settled(st, r)
    IN  IF r.rejected THEN InfoThrow(s, r.reason)
        ELSE IF ~Ok(r.value.status)
             THEN InfoThrow(s, Err(<<"HTTP error! status: ", ToString(r.value.status)>>))
             ELSE [s EXCEPT !.pc = "awaitText"]

\* The result object: title from the primary node, description the joined
\* runs of the secondary node ('' without it), the two derived URLs.
InfoResult(id, tree) ==
    [videoId |-> id,
     title |-> tree.primary.title,
     description |-> IF tree.secondary.present THEN Concat(tree.secondary.runs) ELSE <<>>,
     thumbnailUrl |-> <<"https://i.ytimg.com/vi/">> \o id \o <<"/hqdefault.jpg">>,
     url |-> <<"https://youtube.com/watch?v=">> \o id]

InfoTextSettled(st, r) ==
    LET s == Settled(st, r)
        initialData == extractInitialData(r.value)
    IN  IF r.rejected THEN InfoThrow(s, r.reason)
        ELSE IF initialData.null
             THEN InfoThrow(s, Err(<<"Could not extract video data from page">>))
             ELSE IF ~initialData.tree.primary.present
                  THEN InfoThrow(s, Err(<<"Could not find video data">>))
                  ELSE Return(s, JsonPayload(InfoResult(st.videoId.id, initialData.tree)))

(***************************************************************************)
(* get-transcript: the handler and extractTranscript                       *)
(*                                                                         *)
(* A caption track is [languageCode, baseUrl], "" standing for a missing   *)
(* baseUrl.  A caption event is [tStartMs, hasSegs, segs]: segs is the     *)
(* list of the utf8 texts of its segments, each a sequence of characters.  *)
(***************************************************************************)

\* A faulty variant: the handler has no catch and the error leaves it.
TranscriptHandlerNoCatch(st, e) == Escape(st, e)

\* The catch of the get-transcript handler.
TranscriptHandlerCatch(st, e) ==
    Return(st, ErrorPayload(<<"Error fetching transcript: ">>
                            \o MessageOf(e, "An unknown error occurred")))

\* A throw inside extractTranscript: its catch throws the same error again.
TranscriptThrow(st, e) == TranscriptHandlerCatch(Thrown(st, e), e)

\* The handler up to the first `await fetch(...)` of extractTranscript, or
\* its early return.
TranscriptInvoke(st, h) ==
    LET videoId == extractVideoId(st.input)
        s == [st EXCEPT !.videoId = videoId]
    IN  IF videoId.null THEN InvalidInput(s)
        ELSE [Fetch(s, WatchUrl(videoId.id), Spread(h, "https://www.youtube.com/results"))
                 EXCEPT !.pc = "awaitPage"]

TranscriptPageFetchSettled(st, r) ==
    LET s == Settled(st, r)
    IN  IF r.rejected THEN TranscriptThrow(s, r.reason)
        ELSE IF ~Ok(r.value.status)
             THEN TranscriptThrow(s, Err(<<"HTTP error! status: ", ToString(r.value.status)>>))
             ELSE [s EXCEPT !.pc = "awaitText"]

\* A faulty variant of the selection: the last 'en' track, not the first.
SelectLastEnglish(captions) ==
    LET en == {k \in 1..Len(captions) : captions[k].languageCode = "en"}
    IN  IF en = {} THEN captions[1] ELSE captions[CHOOSE k \in en : \A j \in en : j <= k]

\* captions.find(track => track.languageCode === 'en') || captions[0]
SelectCaptionTrack(captions) ==
    LET en == {k \in 1..Len(captions) : captions[k].languageCode = "en"}
    IN  IF en = {} THEN captions[1] ELSE captions[Min(en)]

\* A faulty variant of a failure: the page is fetched again.
RetryPageFetch(st, e) ==
    [Fetch(Thrown(st, e), WatchUrl(st.videoId.id), <<>>) EXCEPT !.pc = "awaitPage"]

\* The throw of 'Could not find player response data'.
NoPlayerResponse(st, e) == TranscriptThrow(st, e)

\* From the page text settling to the second fetch, or to the throw that
\* ends the call: no player response, JSON.parse throwing, no caption
\* tracks, no baseUrl on the selected track.
TranscriptPageTextSettled(st, r) ==
    LET s == Settled(st, r)
        pr == r.value.ytInitialPlayerResponse
        captions == pr.tree.captionTracks
        captionTrack == SelectCaptionTrack(captions)
    IN  IF r.rejected THEN TranscriptThrow(s, r.reason)
        ELSE IF pr.tag = "absent"
             THEN NoPlayerResponse(s, Err(<<"Could not find player response data">>))
        ELSE IF pr.tag = "unparseable"
             THEN TranscriptThrow(s, Err(<<"SyntaxError: Unexpected token in JSON">>))
        ELSE IF ~pr.tree.hasCaptions \/ Len(captions) = 0
             THEN TranscriptThrow(s, Err(<<"No transcript available for this video">>))
        ELSE IF captionTrack.baseUrl = ""
             THEN TranscriptThrow(s, Err(<<"Could not find caption track URL">>))
        ELSE [Fetch(s, <<captionTrack.baseUrl, "&fmt=json3">>, <<>>)
                 EXCEPT !.pc = "awaitCaptions",
                        !.playerResponse = pr.tree,
                        !.captionTrack = captionTrack]

TranscriptCaptionFetchSettled(st, r) ==
    LET s == Settled(st, r)
    IN  IF r.rejected THEN TranscriptThrow(s, r.reason)
        ELSE IF ~Ok(r.value.status)
             THEN TranscriptThrow(s, Err(<<"Failed to fetch transcript">>))
             ELSE [s EXCEPT !.pc = "awaitJson"]

\* String.prototype.trim on a sequence of characters.
RECURSIVE TrimStart(_)
TrimStart(cs) ==
    IF cs # <<>> /\ Head(cs) \in WhiteSpace THEN TrimStart(Tail(cs)) ELSE cs

RECURSIVE TrimEnd(_)
TrimEnd(cs) ==
    IF cs # <<>> /\ cs[Len(cs)] \in WhiteSpace
    THEN TrimEnd(SubSeq(cs, 1, Len(cs) - 1)) ELSE cs

Trim(cs) == TrimEnd(TrimStart(cs))

\* Array.prototype.join(' ') on a list of character sequences.
RECURSIVE JoinSpace(_)
JoinSpace(ss) ==
    IF ss = <<>> THEN <<>>
    ELSE IF Len(ss) = 1 THEN ss[1]
    ELSE ss[1] \o <<" ">> \o JoinSpace(Tail(ss))

\* The decimal digits of a natural number.
RECURSIVE Digits(_)
Digits(n) ==
    LET d == <<"0", "1", "2", "3", "4", "5", "6", "7", "8", "9">>
    IN  IF n < 10 THEN <<d[n + 1]>> ELSE Digits(n \div 10) \o <<d[(n % 10) + 1]>>

\* (tStartMs / 1000).toFixed(2), for a natural tStartMs whose last digit is
\* not 5 (there the binary value of the quotient decides the rounding; the
\* events explored have no such start).
ToFixed2(ms) ==
    LET hundredths == (ms + 5) \div 10
        frac == hundredths % 100
    IN  Digits(hundredths \div 100) \o <<".">>
            \o (IF frac < 10 THEN <<"0">> ELSE <<>>) \o Digits(frac)

\* The entry the map builds from an event.
TranscriptEntry(event) ==
    [time |-> ToFixed2(event.tStartMs), text |-> Trim(JoinSpace(event.segs))]

\* transcriptEvents.filter(event => event.segs).map(...): an array, even an
\* empty one, is truthy; a missing segs is not.
RECURSIVE ProcessEvents(_)
ProcessEvents(events) ==
    IF events = <<>> THEN <<>>
    ELSE IF Head(events).hasSegs
         THEN <<TranscriptEntry(Head(events))>> \o ProcessEvents(Tail(events))
         ELSE ProcessEvents(Tail(events))

\* videoInfo, read from playerResponse.videoDetails with '' as default.
VideoInfo(playerResponse) ==
    [title |-> playerResponse.videoDetails.title,
     channel |-> [name |-> playerResponse.videoDetails.author],
     duration |-> playerResponse.videoDetails.lengthSeconds]

\* From the caption body settling as JSON to the handler's return.  Reading
\* `events` of a null body throws a TypeError.
TranscriptJsonSettled(st, r) ==
    LET s == Settled(st, r)
        transcriptData == r.value
        transcriptEvents == IF transcriptData.hasEvents THEN transcriptData.events ELSE <<>>
    IN  IF r.rejected THEN TranscriptThrow(s, r.reason)
        ELSE IF transcriptData.isNull
             THEN TranscriptThrow(s, Err(<<"Cannot read properties of null (reading 'events')">>))
             ELSE Return(s, JsonPayload(
                      [videoId |-> st.videoId.id,
                       videoInfo |-> VideoInfo(st.playerResponse),
                       transcript |-> ProcessEvents(transcriptEvents)]))

(***************************************************************************)
(* The environment: what the fetch collaborator may answer                 *)
(***************************************************************************)

\* The longest item list of a results page, caption-track list and caption
\* event list explored by the handlers, and the number of invocations that
\* run at once.
MaxPageItems == 2
MaxTracks == 3
MaxEvents == 2
MaxConcurrent == 2

\* The default of the limit parameter.
DefaultLimit == 5

Statuses == {200, 404, 503}

FetchRejections == {Err(<<"fetch failed">>), NonError}

FetchOutcomes ==
    {Rejected(e) : e \in FetchRejections}
        \cup {Fulfilled([status |-> n]) : n \in Statuses}

\* A node of the watch page that is not there, the primary info node and
\* the secondary info node (its description runs).
NoNode == [present |-> FALSE, title |-> "", runs |-> <<>>]
PrimaryNode == [present |-> TRUE, title |-> "Title", runs |-> <<>>]
SecondaryNode ==
    [present |-> TRUE, title |-> "", runs |-> << <<"a", "b">>, <<"c">> >>]

PageItemLists == UNION {[1..n -> ItemKinds] : n \in 0..MaxPageItems}

\* The trees of a results page; a page without the item path reads as the
\* empty list (`|| []`).
SearchTrees ==
    {[items |-> l, primary |-> NoNode, secondary |-> NoNode] : l \in PageItemLists}

WatchTrees ==
    {[items |-> <<>>, primary |-> p, secondary |-> sn] :
        p \in {NoNode, PrimaryNode}, sn \in {NoNode, SecondaryNode}}

TrackKinds ==
    {[languageCode |-> l, baseUrl |-> u] :
        l \in {"en", "fr"}, u \in {"", "https://www.youtube.com/api/timedtext?v=x"}}

TrackLists == UNION {[1..n -> TrackKinds] : n \in 0..MaxTracks}

VideoDetails == [title |-> "Title", author |-> "Author", lengthSeconds |-> "212"]
NoVideoDetails == [title |-> "", author |-> "", lengthSeconds |-> ""]

PlayerTrees ==
    {[hasCaptions |-> FALSE, captionTracks |-> <<>>, videoDetails |-> NoVideoDetails]}
        \cup {[hasCaptions |-> TRUE, captionTracks |-> l, videoDetails |-> VideoDetails] :
                 l \in TrackLists}

Html(d, p) == [ytInitialData |-> d, ytInitialPlayerResponse |-> p]

SearchHtmls ==
    {Html(d, Absent) : d \in {Absent, Unparseable} \cup {Parsed(t) : t \in SearchTrees}}

WatchHtmls ==
    {Html(d, Absent) : d \in {Absent, Unparseable} \cup {Parsed(t) : t \in WatchTrees}}
        \cup {Html(Absent, p) : p \in {Unparseable} \cup {Parsed(t) : t \in PlayerTrees}}

EventKinds ==
    {[tStartMs |-> 2500, hasSegs |-> FALSE, segs |-> <<>>],
     [tStartMs |-> 0, hasSegs |-> TRUE, segs |-> <<>>],
     [tStartMs |-> 1230, hasSegs |-> TRUE, segs |-> << <<"\n">> >>],
     [tStartMs |-> 2500, hasSegs |-> TRUE, segs |-> << <<"H", "i">>, <<"y", "o", "u">> >>],
     [tStartMs |-> 1000, hasSegs |-> TRUE, segs |-> << <<" ", "o", "k", " ">> >>]}

EventLists == UNION {[1..n -> EventKinds] : n \in 0..MaxEvents}

CaptionBodies ==
    {[isNull |-> TRUE, hasEvents |-> FALSE, events |-> <<>>],
     [isNull |-> FALSE, hasEvents |-> FALSE, events |-> <<>>]}
        \cup {[isNull |-> FALSE, hasEvents |-> TRUE, events |-> l] : l \in EventLists}

BodyRejections == {Err(<<"terminated">>)}
JsonRejections == {Err(<<"SyntaxError: Unexpected token < in JSON">>)}

\* What the awaits of the handlers may settle with.
World ==
    [fetch |-> FetchOutcomes,
     searchText |-> {Rejected(e) : e \in BodyRejections}
                        \cup {Fulfilled(h) : h \in SearchHtmls},
     watchText |-> {Rejected(e) : e \in BodyRejections}
                       \cup {Fulfilled(h) : h \in WatchHtmls},
     json |-> {Rejected(e) : e \in JsonRejections}
                  \cup {Fulfilled(b) : b \in CaptionBodies}]

HandlerInputs ==
    {<<"d", "Q", "w", "4", "w", "9", "W", "g", "X", "c", "Q">>,
     <<"h", "t", "t", "p", "s", ":", "/", "/">> \o ShortMarker
         \o <<"a", "_", "B", "-", "c", "0", "d", "1", "E", "2", "f">>
         \o <<"?", "t", "=", "1", "2", "3">>,
     ShortMarker \o <<"v", "i", "d", ".", "e", "o", "!", "=", "%", "2", "0">>,
     <<"n", "o", "t", " ", "a", " ", "v", "a", "l", "i", "d", " ", "u", "r",
       "l", " ", "o", "r", " ", "i", "d">>}

Queries == {<<"c", "a", "t", "s">>}

Invocations ==
    {NewInvocation("search", q, l) : q \in Queries, l \in MinLimit..MaxLimit}
        \cup {NewInvocation(op, x, DefaultLimit) :
                 op \in {"get-video-info", "get-transcript"}, x \in HandlerInputs}

\* The variables of the parts of the model that the handlers do not run.
IdleParts ==
    /\ idInput = <<>> /\ idResult = Null /\ idPc = "idle"
    /\ items = <<>> /\ limit = MinLimit /\ loop = IdleLoop

\* The identifiers an invocation may have; one invocation has the first.
InvocationIds == 1..MaxConcurrent

Init ==
    /\ inv \in [{Min(InvocationIds)} -> Invocations]
    /\ commonHeaders = InitialHeaders
    /\ IdleParts

\* One step of invocation i: its locals become st, and the module's
\* commonHeaders becomes h.
Step(i, st, h) ==
    /\ inv' = [inv EXCEPT ![i] = st]
    /\ commonHeaders' = h
    /\ UNCHANGED <<idInput, idResult, idPc, items, limit, loop>>

SearchStart(i) ==
    /\ i \in DOMAIN inv
    /\ inv[i].op = "search" /\ inv[i].pc = "start"
    /\ Step(i, SearchInvoke(inv[i], commonHeaders),
            HeadersAfterSpread(commonHeaders, "https://www.youtube.com/"))

SearchFetchSettles(i, w) ==
    /\ i \in DOMAIN inv
    /\ inv[i].op = "search" /\ inv[i].pc = "awaitPage"
    /\ \E r \in w.fetch : Step(i, SearchFetchSettled(inv[i], r), commonHeaders)

SearchTextSettles(i, w) ==
    /\ i \in DOMAIN inv
    /\ inv[i].op = "search" /\ inv[i].pc = "awaitText"
    /\ \E r \in w.searchText : Step(i, SearchTextSettled(inv[i], r), commonHeaders)

InfoStart(i) ==
    /\ i \in DOMAIN inv
    /\ inv[i].op = "get-video-info" /\ inv[i].pc = "start"
    /\ Step(i, InfoInvoke(inv[i], commonHeaders),
            IF extractVideoId(inv[i].input).null THEN commonHeaders
            ELSE HeadersAfterSpread(commonHeaders, "https://www.youtube.com/results"))

InfoFetchSettles(i, w) ==
    /\ i \in DOMAIN inv
    /\ inv[i].op = "get-video-info" /\ inv[i].pc = "awaitPage"
    /\ \E r \in w.fetch : Step(i, InfoFetchSettled(inv[i], r), commonHeaders)

InfoTextSettles(i, w) ==
    /\ i \in DOMAIN inv
    /\ inv[i].op = "get-video-info" /\ inv[i].pc = "awaitText"
    /\ \E r \in w.watchText : Step(i, InfoTextSettled(inv[i], r), commonHeaders)

TranscriptStart(i) ==
    /\ i \in DOMAIN inv
    /\ inv[i].op = "get-transcript" /\ inv[i].pc = "start"
    /\ Step(i, TranscriptInvoke(inv[i], commonHeaders),
            IF extractVideoId(inv[i].input).null THEN commonHeaders
            ELSE HeadersAfterSpread(commonHeaders, "https://www.youtube.com/results"))

TranscriptPageFetchSettles(i, w) ==
    /\ i \in DOMAIN inv
    /\ inv[i].op = "get-transcript" /\ inv[i].pc = "awaitPage"
    /\ \E r \in w.fetch : Step(i, TranscriptPageFetchSettled(inv[i], r), commonHeaders)

TranscriptPageTextSettles(i, w) ==
    /\ i \in DOMAIN inv
    /\ inv[i].op = "get-transcript" /\ inv[i].pc = "awaitText"
    /\ \E r \in w.watchText : Step(i, TranscriptPageTextSettled(inv[i], r), commonHeaders)

TranscriptCaptionFetchSettles(i, w) ==
    /\ i \in DOMAIN inv
    /\ inv[i].op = "get-transcript" /\ inv[i].pc = "awaitCaptions"
    /\ \E r \in w.fetch : Step(i, TranscriptCaptionFetchSettled(inv[i], r), commonHeaders)

TranscriptJsonSettles(i, w) ==
    /\ i \in DOMAIN inv
    /\ inv[i].op = "get-transcript" /\ inv[i].pc = "awaitJson"
    /\ \E r \in w.json : Step(i, TranscriptJsonSettled(inv[i], r), commonHeaders)

Next ==
    \E i \in InvocationIds :
        \/ SearchStart(i)
        \/ SearchFetchSettles(i, World)
        \/ SearchTextSettles(i, World)
        \/ InfoStart(i)
        \/ InfoFetchSettles(i, World)
        \/ InfoTextSettles(i, World)
        \/ TranscriptStart(i)
        \/ TranscriptPageFetchSettles(i, World)
        \/ TranscriptPageTextSettles(i, World)
        \/ TranscriptCaptionFetchSettles(i, World)
        \/ TranscriptJsonSettles(i, World)

Spec == Init /\ [][Next]_vars

(***************************************************************************)
(* What an invocation's log shows                                          *)
(***************************************************************************)
EventsOf(st, kind) == SelectSeq(st.log, LAMBDA e : e.ev = kind)
Fetches(st) == EventsOf(st, "fetch")
Settles(st) == EventsOf(st, "settle")
Throws(st) == EventsOf(st, "throw")
Returns(st) == EventsOf(st, "return")
Escapes(st) == EventsOf(st, "escape")

\* part is one of the parts of the message text.
HasPart(text, part) == \E k \in 1..Len(text) : text[k] = part

\* The invocation has received the text of its page.
PageRead(st) == Len(Settles(st)) >= 2 /\ ~Settles(st)[2].settled.rejected
PageOf(st) == Settles(st)[2].settled.value

\* The caption-track list of the page a get-transcript invocation read is
\* there and not empty.
HasTracks(st) ==
    /\ st.op = "get-transcript" /\ PageRead(st)
    /\ PageOf(st).ytInitialPlayerResponse.tag = "json"
    /\ PageOf(st).ytInitialPlayerResponse.tree.hasCaptions
    /\ Len(PageOf(st).ytInitialPlayerResponse.tree.captionTracks) > 0
TracksOf(st) == PageOf(st).ytInitialPlayerResponse.tree.captionTracks

\* The track the documented policy selects: the first 'en', else index 0.
PolicyTrack(tracks) ==
    IF \E k \in 1..Len(tracks) : tracks[k].languageCode = "en"
    THEN tracks[CHOOSE k \in 1..Len(tracks) :
                    /\ tracks[k].languageCode = "en"
                    /\ \A j \in 1..(k - 1) : tracks[j].languageCode # "en"]
    ELSE tracks[1]

\* C4: for a non-empty track list the first 'en' track is selected, else the
\* track at index 0; without a baseUrl on it the call fails with 'Could not
\* find caption track URL' and fetches no other track.
C4_TrackSelection ==
    \A i \in DOMAIN inv :
        HasTracks(inv[i]) =>
            LET st == inv[i]
                track == PolicyTrack(TracksOf(st))
            IN  IF track.baseUrl = ""
                THEN /\ st.pc = "done"
                     /\ Len(Fetches(st)) = 1
                     /\ Throws(st)[1].error = Err(<<"Could not find caption track URL">>)
                     /\ Returns(st)[1].payload.isError
                     /\ HasPart(Returns(st)[1].payload.text, "Could not find caption track URL")
                ELSE /\ Len(Fetches(st)) = 2
                     /\ Fetches(st)[2].url = <<track.baseUrl, "&fmt=json3">>
                     /\ st.captionTrack = track

\* C4's case: the first 'en' track of three has no baseUrl, a later one has.
C4_Witness ==
    \E i \in DOMAIN inv :
        /\ HasTracks(inv[i])
        /\ Len(TracksOf(inv[i])) = 3
        /\ TracksOf(inv[i])[1].languageCode = "fr"
        /\ TracksOf(inv[i])[1].baseUrl # ""
        /\ TracksOf(inv[i])[2] = [languageCode |-> "en", baseUrl |-> ""]
        /\ TracksOf(inv[i])[3].languageCode = "en"
        /\ TracksOf(inv[i])[3].baseUrl # ""
        /\ inv[i].pc = "done"
        /\ Len(Fetches(inv[i])) = 1

\* The invocation returned a transcript.
TranscriptReturned(st) ==
    /\ st.op = "get-transcript" /\ st.pc = "done"
    /\ Len(Settles(st)) = 4
    /\ Len(Returns(st)) = 1 /\ ~Returns(st)[1].payload.isError
BodyEvents(st) ==
    LET b == Settles(st)[4].settled.value
    IN  IF b.hasEvents THEN b.events ELSE <<>>

\* An event carries segment data: it has segments.
CarriesSegmentData(event) == event.hasSegs /\ event.segs # <<>>

\* C5: the transcript has one entry per event that carries segment data, in
\* the order of the events, none for an event without, and no entry with
\* empty text.
C5_EntriesAreEventsWithSegments ==
    \A i \in DOMAIN inv :
        TranscriptReturned(inv[i]) =>
            LET transcript == Returns(inv[i])[1].payload.json[1].transcript
                carrying == SelectSeq(BodyEvents(inv[i]), CarriesSegmentData)
            IN  /\ Len(transcript) = Len(carrying)
                /\ \A k \in 1..Len(transcript) :
                       /\ transcript[k].time = ToFixed2(carrying[k].tStartMs)
                       /\ transcript[k].text # <<>>

\* The embedded variable the operation reads from the page it fetched.
NeededVariable(st) ==
    IF st.op = "get-transcript" THEN PageOf(st).ytInitialPlayerResponse
    ELSE PageOf(st).ytInitialData

\* C6: in each of the three operations, a page whose needed embedded variable
\* is absent or is not JSON ends the call with the error 'Could not extract
\* video data from page'.
C6_ExtractionFailed ==
    \A i \in DOMAIN inv :
        (PageRead(inv[i]) /\ NeededVariable(inv[i]).tag \in {"absent", "unparseable"}) =>
            /\ inv[i].pc = "done"
            /\ Len(Returns(inv[i])) = 1
            /\ Returns(inv[i])[1].payload.isError
            /\ HasPart(Returns(inv[i])[1].payload.text,
                       "Could not extract video data from page")

\* The positions, among the settled awaits of an invocation, of its fetches:
\* the page fetch, and the caption fetch of get-transcript.
FetchSettles(st) ==
    {k \in {1, 3} : k <= Len(Settles(st)) /\ ~Settles(st)[k].settled.rejected}

\* C7: a response of any of the fetches with ok = false ends the call with an
\* error payload whose message has the response's numeric status.
C7_StatusInMessage ==
    \A i \in DOMAIN inv : \A k \in FetchSettles(inv[i]) :
        LET status == Settles(inv[i])[k].settled.value.status
        IN  ~Ok(status) =>
                /\ inv[i].pc = "done"
                /\ Len(Returns(inv[i])) = 1
                /\ Returns(inv[i])[1].payload.isError
                /\ HasPart(Returns(inv[i])[1].payload.text, ToString(status))

\* A fault occurred in the invocation: something was thrown, or the input did
\* not resolve to an identifier.
Faulted(st) ==
    \/ Throws(st) # <<>>
    \/ st.op # "search" /\ st.pc # "start" /\ st.videoId.null

\* C8: a handler returns exactly one payload, with isError = true and a text
\* after any fault; nothing escapes it, and nothing is returned before the
\* invocation ends.
C8_OnePayloadErrorOnFault ==
    \A i \in DOMAIN inv :
        /\ Escapes(inv[i]) = <<>>
        /\ inv[i].pc # "done" => Returns(inv[i]) = <<>> /\ ~Faulted(inv[i])
        /\ inv[i].pc = "done" =>
               /\ Len(Returns(inv[i])) = 1
               /\ Faulted(inv[i]) =>
                      /\ Returns(inv[i])[1].payload.isError
                      /\ Returns(inv[i])[1].payload.text # <<>>

\* C8's case: get-transcript ended by the caption body failing to parse.
C8_Witness ==
    \E i \in DOMAIN inv :
        /\ i \in DOMAIN inv
    /\ inv[i].op = "get-transcript" /\ inv[i].pc = "done"
        /\ Len(Settles(inv[i])) = 4
        /\ Settles(inv[i])[4].settled.rejected
        /\ Len(Throws(inv[i])) = 1
        /\ Returns(inv[i])[1].payload.isError

\* C9: a get-transcript invocation issues no fetch when its input does not
\* resolve; otherwise the watch-page fetch once, then at most one caption
\* fetch, only after the page came back ok and was read, the player response
\* parsed and the selected track of a non-empty list had a baseUrl; after
\* a failure it issues no fetch and has ended with that failure.
C9_FetchOrder ==
    \A i \in DOMAIN inv :
        inv[i].op = "get-transcript" =>
            LET st == inv[i]
                log == st.log
            IN  /\ (st.pc # "start" /\ st.videoId.null) => Fetches(st) = <<>>
                /\ (st.pc # "start" /\ ~st.videoId.null) =>
                       Cardinality({k \in 1..Len(log) :
                           /\ log[k].ev = "fetch"
                           /\ log[k].url = WatchUrl(st.videoId.id)}) = 1
                /\ Len(Fetches(st)) <= 2
                /\ Len(Fetches(st)) >= 1 =>
                       /\ log[1].ev = "fetch"
                       /\ log[1].url = WatchUrl(st.videoId.id)
                /\ Len(Fetches(st)) = 2 =>
                       /\ log[2].ev = "settle" /\ ~log[2].settled.rejected
                       /\ Ok(log[2].settled.value.status)
                       /\ log[3].ev = "settle" /\ ~log[3].settled.rejected
                       /\ log[4].ev = "fetch"
                       /\ HasTracks(st)
                       /\ PolicyTrack(TracksOf(st)).baseUrl # ""
                       /\ log[4].url = <<PolicyTrack(TracksOf(st)).baseUrl, "&fmt=json3">>
                /\ \A j \in 1..Len(log) : log[j].ev = "throw" =>
                       /\ \A k \in (j + 1)..Len(log) : log[k].ev # "fetch"
                       /\ st.pc = "done"
                       /\ Len(log) = j + 1
                       /\ log[j + 1].ev = "return"
                       /\ log[j + 1].payload.isError
                       /\ log[j + 1].payload.text =
                              <<"Error fetching transcript: ">>
                                  \o MessageOf(log[j].error, "An unknown error occurred")

\* C9's case: both fetches were issued and the second came back not ok.
C9_Witness ==
    \E i \in DOMAIN inv :
        /\ i \in DOMAIN inv
    /\ inv[i].op = "get-transcript" /\ inv[i].pc = "done"
        /\ Len(Fetches(inv[i])) = 2
        /\ Len(Settles(inv[i])) = 3
        /\ ~Settles(inv[i])[3].settled.rejected
        /\ ~Ok(Settles(inv[i])[3].settled.value.status)

(***************************************************************************)
(* Invocations that run at once: their steps interleave at the awaits.     *)
(***************************************************************************)
ConcurrentWorld ==
    [fetch |-> {Rejected(Err(<<"fetch failed">>)),
                Fulfilled([status |-> 404]), Fulfilled([status |-> 200])},
     searchText |->
         {Fulfilled(Html(Absent, Absent)),
          Fulfilled(Html(Parsed([items |-> <<[videoRenderer |-> TRUE,
                                              videoId |-> "v1", title |-> "T1"]>>,
                                 primary |-> NoNode, secondary |-> NoNode]),
                         Absent))},
     watchText |->
         {Fulfilled(Html(Absent, Absent)),
          Fulfilled(Html(Parsed([items |-> <<>>, primary |-> PrimaryNode,
                                 secondary |-> SecondaryNode]),
                         Parsed([hasCaptions |-> TRUE,
                                 captionTracks |->
                                     <<[languageCode |-> "en",
                                        baseUrl |-> "https://www.youtube.com/api/timedtext?v=x"]>>,
                                 videoDetails |-> VideoDetails])))},
     json |-> {Rejected(e) : e \in JsonRejections}
                  \cup {Fulfilled([isNull |-> FALSE, hasEvents |-> TRUE,
                                   events |-> <<[tStartMs |-> 2500, hasSegs |-> TRUE,
                                                 segs |-> << <<"H", "i">> >>]>>])}]

ConcurrentInvocations ==
    {NewInvocation("search", q, DefaultLimit) : q \in Queries}
        \cup {NewInvocation(op, x, DefaultLimit) :
                 op \in {"get-video-info", "get-transcript"},
                 x \in {<<"d", "Q", "w", "4", "w", "9", "W", "g", "X", "c", "Q">>,
                        ShortMarker \o <<"a", "_", "B", "-", "c", "0", "d", "1",
                                         "E", "2", "f">>}}

InitConc ==
    /\ inv \in [InvocationIds -> ConcurrentInvocations]
    /\ commonHeaders = InitialHeaders
    /\ IdleParts

NextConc ==
    \E i \in InvocationIds :
        \/ SearchStart(i)
        \/ SearchFetchSettles(i, ConcurrentWorld)
        \/ SearchTextSettles(i, ConcurrentWorld)
        \/ InfoStart(i)
        \/ InfoFetchSettles(i, ConcurrentWorld)
        \/ InfoTextSettles(i, ConcurrentWorld)
        \/ TranscriptStart(i)
        \/ TranscriptPageFetchSettles(i, ConcurrentWorld)
        \/ TranscriptPageTextSettles(i, ConcurrentWorld)
        \/ TranscriptCaptionFetchSettles(i, ConcurrentWorld)
        \/ TranscriptJsonSettles(i, ConcurrentWorld)

SpecConc == InitConc /\ [][NextConc]_vars

\* The handler that st runs, from its call to its first await or return.
Begin(st, h) ==
    CASE st.op = "search" -> SearchInvoke(st, h)
      [] st.op = "get-video-info" -> InfoInvoke(st, h)
      [] st.op = "get-transcript" -> TranscriptInvoke(st, h)

\* The handler resumed with what its await settled with.
Resume(st, r) ==
    CASE st.op = "search" /\ st.pc = "awaitPage" -> SearchFetchSettled(st, r)
      [] st.op = "search" /\ st.pc = "awaitText" -> SearchTextSettled(st, r)
      [] st.op = "get-video-info" /\ st.pc = "awaitPage" -> InfoFetchSettled(st, r)
      [] st.op = "get-video-info" /\ st.pc = "awaitText" -> InfoTextSettled(st, r)
      [] st.op = "get-transcript" /\ st.pc = "awaitPage" -> TranscriptPageFetchSettled(st, r)
      [] st.op = "get-transcript" /\ st.pc = "awaitText" -> TranscriptPageTextSettled(st, r)
      [] st.op = "get-transcript" /\ st.pc = "awaitCaptions" -> TranscriptCaptionFetchSettled(st, r)
      [] st.op = "get-transcript" /\ st.pc = "awaitJson" -> TranscriptJsonSettled(st, r)

RECURSIVE Replay(_, _)
Replay(st, rs) == IF rs = <<>> THEN st ELSE Replay(Resume(st, Head(rs)), Tail(rs))

\* The same invocation run alone, in a freshly loaded module, against the
\* responses st received.
RunAlone(st) ==
    Replay(Begin(NewInvocation(st.op, st.input, st.limit), InitialHeaders),
           [k \in 1..Len(Settles(st)) |-> Settles(st)[k].settled])

====
